---- MODULE Spec2Model ----
(***************************************************************************)
(* Read facade of the chess opening tree server: the position key          *)
(* normaliser (server/src/utils/fen.ts), the query service                 *)
(* (server/src/services/openingTreeService.ts), the read-only repository   *)
(* (server/src/server.ts) and the HTTP routes (server/src/router.ts).      *)
(*                                                                         *)
(* A JavaScript string is modelled as a sequence of one-character strings, *)
(* so that trimming, splitting, run-length expansion and joining are       *)
(* computed, character by character, as the code computes them.            *)
(***************************************************************************)
EXTENDS Integers, Sequences, FiniteSets, TLC

VARIABLES
    fen,        \* descriptor handed to the last normaliseFen call
    key,        \* outcome of that call: a key, or the error it threw
    prev,       \* outcome of the call before it (None at the first call);
                \* for a repeated request, the request and reply before it
    op,         \* which step produced `key`
    stores,     \* the configured trees, in order: [name, store] with the
                \* content of the tree's database file
    baseUrl,    \* the configuration's baseUrl, or Undefined
    request,    \* the last HTTP request served
    reply       \* the reply to it

vars == <<fen, key, prev, op, stores, baseUrl, request, reply>>

None == [kind |-> "none"]
Undefined == [kind |-> "undefined"]

(***************************************************************************)
(* Characters and JavaScript string primitives                             *)
(***************************************************************************)

\* the characters /\s/ matches, among those the model's descriptors use
WhiteSpace == {" ", "\t"}

\* /^[0-9]$/ and Number(ch)
DigitValue ==
    [c \in {"0", "1", "2", "3", "4", "5", "6", "7", "8", "9"} |->
        CASE c = "0" -> 0 [] c = "1" -> 1 [] c = "2" -> 2 [] c = "3" -> 3
          [] c = "4" -> 4 [] c = "5" -> 5 [] c = "6" -> 6 [] c = "7" -> 7
          [] c = "8" -> 8 [] c = "9" -> 9]

IsDigit(ch) == ch \in DOMAIN DigitValue

\* ep.charCodeAt(0) - 97 for the letters [a-h]
FileIndex ==
    [c \in {"a", "b", "c", "d", "e", "f", "g", "h"} |->
        CASE c = "a" -> 0 [] c = "b" -> 1 [] c = "c" -> 2 [] c = "d" -> 3
          [] c = "e" -> 4 [] c = "f" -> 5 [] c = "g" -> 6 [] c = "h" -> 7]

\* " ".repeat(n)
Spaces(n) == [i \in 1..n |-> " "]

\* s.slice(0, n)
Slice0(s, n) == SubSeq(s, 1, IF Len(s) < n THEN Len(s) ELSE n)

\* s.trim()
RECURSIVE TrimLeft(_)
TrimLeft(s) ==
    IF s # <<>> /\ Head(s) \in WhiteSpace THEN TrimLeft(Tail(s)) ELSE s

RECURSIVE TrimRight(_)
TrimRight(s) ==
    IF s # <<>> /\ s[Len(s)] \in WhiteSpace
    THEN TrimRight(SubSeq(s, 1, Len(s) - 1))
    ELSE s

Trim(s) == TrimRight(TrimLeft(s))

\* s.split(/\s+/): the pieces between maximal runs of white space; a run at
\* either end leaves an empty piece there, and "" splits into [""]
RECURSIVE SplitWsFrom(_, _, _)
SplitWsFrom(s, cur, acc) ==
    IF s = <<>> THEN Append(acc, cur)
    ELSE IF Head(s) \in WhiteSpace
         THEN SplitWsFrom(TrimLeft(s), <<>>, Append(acc, cur))
         ELSE SplitWsFrom(Tail(s), Append(cur, Head(s)), acc)

SplitWs(s) == SplitWsFrom(s, <<>>, <<>>)

\* s.split(sep) for a one-character separator
RECURSIVE SplitCharFrom(_, _, _, _)
SplitCharFrom(s, sep, cur, acc) ==
    IF s = <<>> THEN Append(acc, cur)
    ELSE IF Head(s) = sep
         THEN SplitCharFrom(Tail(s), sep, <<>>, Append(acc, cur))
         ELSE SplitCharFrom(Tail(s), sep, Append(cur, Head(s)), acc)

SplitChar(s, sep) == SplitCharFrom(s, sep, <<>>, <<>>)

\* parts.filter(Boolean): the empty string is falsy
FilterNonEmpty(parts) == SelectSeq(parts, LAMBDA p : p # <<>>)

Range(q) == { q[i] : i \in DOMAIN q }

\* parts.join(sep)
RECURSIVE Join(_, _)
Join(parts, sep) ==
    IF parts = <<>> THEN <<>>
    ELSE IF Len(parts) = 1 THEN parts[1]
    ELSE parts[1] \o sep \o Join(Tail(parts), sep)

(***************************************************************************)
(* server/src/utils/fen.ts                                                 *)
(***************************************************************************)

BoardWidth == 8

\* the character a run of the rank string expands to
ExpandChar(ch) == IF IsDigit(ch) THEN Spaces(DigitValue[ch]) ELSE <<ch>>

RECURSIVE ExpandAll(_)
ExpandAll(rankStr) ==
    IF rankStr = <<>> THEN <<>>
    ELSE ExpandChar(Head(rankStr)) \o ExpandAll(Tail(rankStr))

expandFenRank(rankStr) ==
    Slice0(ExpandAll(rankStr) \o Spaces(BoardWidth), BoardWidth)

\* /^[a-h][36]$/.test(ep)
IsEpSquare(ep) ==
    /\ Len(ep) = 2
    /\ ep[1] \in DOMAIN FileIndex
    /\ ep[2] \in {"3", "6"}

Dash == <<"-">>

Key(s) == [kind |-> "key", value |-> s]
Thrown(name) == [kind |-> "thrown", error |-> name]

\* 8 - (isWhiteToMove ? 5 : 4): the 0-based index, from the top, of the rank
\* a capturing pawn stands on
PawnRankIdx(activeColor) == BoardWidth - (IF activeColor = <<"w">> THEN 5 ELSE 4)

PawnChar(activeColor) == IF activeColor = <<"w">> THEN "P" ELSE "p"

\* a variant that wraps around the board edge instead of stopping at it
NeighbourOkWrap(rankExpanded, idx, pawnChar) ==
    rankExpanded[((idx + BoardWidth) % BoardWidth) + 1] = pawnChar

\* fileIdx -+ 1 within 0..7 && rankExpanded[fileIdx -+ 1] === pawnChar
NeighbourOk(rankExpanded, idx, pawnChar) ==
    /\ idx >= 0
    /\ idx <= BoardWidth - 1
    /\ rankExpanded[idx + 1] = pawnChar

\* the target is kept when a pawn of the side to move stands next to its file;
\* ranks[pawnRankIdx] is undefined when the placement has too few ranks, and
\* expandFenRank(undefined) throws a TypeError at rankStr.split
ResolveTarget(ep, piecePlacement, activeColor) ==
    LET fileIdx == FileIndex[ep[1]]
        pawnChar == PawnChar(activeColor)
        pawnRankIdx == PawnRankIdx(activeColor)
        ranks == SplitChar(piecePlacement, "/")
    IN  IF pawnRankIdx + 1 > Len(ranks) THEN Thrown("TypeError")
        ELSE LET rankExpanded == expandFenRank(ranks[pawnRankIdx + 1])
                 leftOk == NeighbourOk(rankExpanded, fileIdx - 1, pawnChar)
                 rightOk == NeighbourOk(rankExpanded, fileIdx + 1, pawnChar)
             IN  IF leftOk \/ rightOk THEN Key(ep) ELSE Key(Dash)

\* a variant that resets what is not a square of rank 3 or 6
normaliseEnPassantStrict(ep, piecePlacement, activeColor) ==
    IF ep = Dash THEN Key(ep)
    ELSE IF ~IsEpSquare(ep) THEN Key(Dash)
    ELSE ResolveTarget(ep, piecePlacement, activeColor)

normaliseEnPassant(ep, piecePlacement, activeColor) ==
    IF ep = Dash THEN Key(ep)
    ELSE IF ~IsEpSquare(ep) THEN Key(ep)
    ELSE ResolveTarget(ep, piecePlacement, activeColor)

\* fen.trim().split(/\s+/).filter(Boolean)
FenParts(f) == FilterNonEmpty(SplitWs(Trim(f)))

MinParts == 4

\* a variant that leaves the castling rights out of the key
normaliseFenNoCastling(f) ==
    LET parts == FenParts(f)
    IN  IF Len(parts) < MinParts THEN Thrown("Error")
        ELSE LET ep == normaliseEnPassant(parts[4], parts[1], parts[2])
             IN  IF ep.kind = "thrown" THEN ep
                 ELSE Key(Join(<<parts[1], parts[2], ep.value>>, <<" ">>))

\* a variant that keeps the counters it was given
normaliseFenKeepAll(f) ==
    LET parts == FenParts(f)
    IN  IF Len(parts) < MinParts THEN Thrown("Error")
        ELSE LET ep == normaliseEnPassant(parts[4], parts[1], parts[2])
             IN  IF ep.kind = "thrown" THEN ep
                 ELSE Key(Join(<<parts[1], parts[2], parts[3], ep.value>>
                               \o SubSeq(parts, 5, Len(parts)), <<" ">>))

\* a variant that accepts a descriptor without an en-passant field
normaliseFenLenient(f) ==
    LET parts == FenParts(f)
    IN  IF Len(parts) < MinParts - 1 THEN Thrown("Error")
        ELSE IF Len(parts) < MinParts THEN Key(Join(parts \o <<Dash>>, <<" ">>))
        ELSE LET ep == normaliseEnPassant(parts[4], parts[1], parts[2])
             IN  IF ep.kind = "thrown" THEN ep
                 ELSE Key(Join(<<parts[1], parts[2], parts[3], ep.value>>, <<" ">>))

normaliseFen(f) ==
    LET parts == FenParts(f)
    IN  IF Len(parts) < MinParts THEN Thrown("Error")
        ELSE LET piecePlacement == parts[1]
                 activeColor == parts[2]
                 castlingRights == parts[3]
                 enPassantTarget == parts[4]
                 ep == normaliseEnPassant(enPassantTarget, piecePlacement, activeColor)
             IN  IF ep.kind = "thrown" THEN ep
                 ELSE Key(Join(<<piecePlacement, activeColor, castlingRights, ep.value>>,
                               <<" ">>))

(***************************************************************************)
(* server/src/server.ts: OpeningTreeRepository                             *)
(*                                                                         *)
(* A store is the content of one tree file: positions, a sequence of rows  *)
(* [id, fen]; moves, a sequence of rows [from, to, move] in table order;   *)
(* stats, the set of position_statistics rows.                             *)
(***************************************************************************)

Null == [kind |-> "null"]

\* SELECT id, fen FROM positions WHERE fen = ?   (stmt.get: the first row)
getPositionByFen(store, f) ==
    LET hits == SelectSeq(store.positions, LAMBDA p : p.fen = f)
    IN  IF hits = <<>> THEN Null ELSE hits[1]

\* one row of the join: moves m JOIN positions p JOIN position_statistics s
JoinRow(m, p, st) ==
    [move |-> m.move, fen |-> p.fen,
     total_games |-> st.total_games, white_wins |-> st.white_wins,
     draws |-> st.draws, black_wins |-> st.black_wins,
     total_player_elo |-> st.total_player_elo,
     total_player_performance |-> st.total_player_performance,
     last_played_date |-> st.last_played_date, game_ref |-> st.game_ref]

\* a variant that joins the statistics of the position the move starts from
RECURSIVE JoinMoveFromStats(_, _, _)
JoinMoveFromStats(m, positions, stats) ==
    IF positions = <<>> THEN <<>>
    ELSE LET p == Head(positions)
             st == { x \in stats : x.position_id = m.from }
         IN  (IF p.id = m.to /\ st # {}
              THEN <<JoinRow(m, p, CHOOSE x \in st : TRUE)>>
              ELSE <<>>)
             \o JoinMoveFromStats(m, Tail(positions), stats)

\* the rows one move joins to: none when the destination or its statistics
\* row is missing
RECURSIVE JoinMove(_, _, _)
JoinMove(m, positions, stats) ==
    IF positions = <<>> THEN <<>>
    ELSE LET p == Head(positions)
             st == { x \in stats : x.position_id = m.to }
         IN  (IF p.id = m.to /\ st # {}
              THEN <<JoinRow(m, p, CHOOSE x \in st : TRUE)>>
              ELSE <<>>)
             \o JoinMove(m, Tail(positions), stats)

RECURSIVE JoinFrom(_, _, _)
JoinFrom(moves, store, positionId) ==
    IF moves = <<>> THEN <<>>
    ELSE (IF Head(moves).from = positionId
          THEN JoinMove(Head(moves), store.positions, store.stats)
          ELSE <<>>)
         \o JoinFrom(Tail(moves), store, positionId)

\* rows in descending total_games; rows of equal total_games keep their order
RECURSIVE InsertDesc(_, _)
InsertDesc(sorted, row) ==
    IF sorted = <<>> THEN <<row>>
    ELSE IF Head(sorted).total_games >= row.total_games
         THEN <<Head(sorted)>> \o InsertDesc(Tail(sorted), row)
         ELSE <<row>> \o sorted

RECURSIVE SortDesc(_)
SortDesc(rows) ==
    IF rows = <<>> THEN <<>>
    ELSE InsertDesc(SortDesc(SubSeq(rows, 1, Len(rows) - 1)), rows[Len(rows)])

\* SELECT ... FROM moves m JOIN positions p ... JOIN position_statistics s ...
\* WHERE m.from_position_id = ? ORDER BY s.total_games DESC
getMovesFromPosition(store, positionId) ==
    SortDesc(JoinFrom(store.moves, store, positionId))

(***************************************************************************)
(* server/src/services/openingTreeService.ts                               *)
(***************************************************************************)

removeEnPassantFromFen(f) ==
    LET parts == SplitWs(f)
        forced == IF Len(parts) >= 4 THEN [parts EXCEPT ![4] = Dash] ELSE parts
    IN  Join(SubSeq(forced, 1, IF Len(forced) < 4 THEN Len(forced) ELSE 4), <<" ">>)

\* dict.set(m.move, m): a new key goes last, a known key keeps its place
MapSet(dict, m) ==
    IF \E i \in 1..Len(dict) : dict[i].move = m.move
    THEN [i \in 1..Len(dict) |-> IF dict[i].move = m.move THEN m ELSE dict[i]]
    ELSE Append(dict, m)

MapHas(dict, name) == \E i \in 1..Len(dict) : dict[i].move = name

RECURSIVE SetAll(_, _)
SetAll(dict, moves) ==
    IF moves = <<>> THEN dict ELSE SetAll(MapSet(dict, Head(moves)), Tail(moves))

RECURSIVE SetAbsent(_, _)
SetAbsent(dict, moves) ==
    IF moves = <<>> THEN dict
    ELSE SetAbsent(IF MapHas(dict, Head(moves).move) THEN dict
                   ELSE MapSet(dict, Head(moves)),
                   Tail(moves))

\* a variant in which the rows of the second list overwrite those of the first
mergeMovesLastWins(moves1, moves2) == SetAll(SetAll(<<>>, moves1), moves2)

mergeMoves(moves1, moves2) == SetAbsent(SetAll(<<>>, moves1), moves2)

\* a variant that rounds to the nearest integer
TruncDivRounding(a, b) == (2 * a + b) \div (2 * b)

\* Math.trunc(a / b) for a >= 0, b > 0
TruncDiv(a, b) == a \div b

Transform(move) ==
    [move |-> move.move, fen |-> move.fen,
     total_games |-> move.total_games, white_wins |-> move.white_wins,
     draws |-> move.draws, black_wins |-> move.black_wins,
     last_played_date |-> move.last_played_date, game_ref |-> move.game_ref,
     rating |-> TruncDiv(move.total_player_elo, move.total_games),
     performance |-> TruncDiv(move.total_player_performance, move.total_games)]

\* a variant that tests the en-passant field the wrong way round
MergedMovesInverted(store, normalized, moves) ==
    LET parts == SplitWs(normalized)
        hasEp == Len(parts) >= 4 /\ parts[4] = Dash
    IN  IF ~hasEp THEN moves
        ELSE LET noEpPos == getPositionByFen(store, removeEnPassantFromFen(normalized))
             IN  IF noEpPos = Null THEN moves
                 ELSE mergeMoves(moves, getMovesFromPosition(store, noEpPos.id))

\* the rows of the en-passant-stripped twin, merged in when the key carries
\* an en-passant target and the twin is stored
MergedMoves(store, normalized, moves) ==
    LET parts == SplitWs(normalized)
        hasEp == Len(parts) >= 4 /\ parts[4] # Dash
    IN  IF ~hasEp THEN moves
        ELSE LET noEpFen == removeEnPassantFromFen(normalized)
                 noEpPos == getPositionByFen(store, noEpFen)
             IN  IF noEpPos = Null THEN moves
                 ELSE mergeMoves(moves, getMovesFromPosition(store, noEpPos.id))

\* a variant that returns the rows in the order the merge leaves them in
queryPositionUnsorted(store, f) ==
    LET normalized == normaliseFen(f)
    IN  IF normalized.kind = "thrown" THEN normalized
        ELSE LET position == getPositionByFen(store, normalized.value)
             IN  IF position = Null THEN Null
                 ELSE LET moves == MergedMoves(store, normalized.value,
                                       getMovesFromPosition(store, position.id))
                      IN  [kind |-> "found", fen |-> position.fen,
                           moves |-> [i \in 1..Len(moves) |-> Transform(moves[i])]]

\* a variant that looks the descriptor up as it was given
queryPositionAsGiven(store, f) ==
    LET normalized == normaliseFen(f)
    IN  IF normalized.kind = "thrown" THEN normalized
        ELSE LET position == getPositionByFen(store, f)
             IN  IF position = Null THEN Null
                 ELSE LET moves == MergedMoves(store, normalized.value,
                                       getMovesFromPosition(store, position.id))
                          transformed == [i \in 1..Len(moves) |-> Transform(moves[i])]
                      IN  [kind |-> "found", fen |-> position.fen,
                           moves |-> SortDesc(transformed)]

\* the outcome of queryPosition: Thrown(..), Null, or [fen, moves]
queryPosition(store, f) ==
    LET normalized == normaliseFen(f)
    IN  IF normalized.kind = "thrown" THEN normalized
        ELSE LET position == getPositionByFen(store, normalized.value)
             IN  IF position = Null THEN Null
                 ELSE LET moves == MergedMoves(store, normalized.value,
                                       getMovesFromPosition(store, position.id))
                          transformed == [i \in 1..Len(moves) |-> Transform(moves[i])]
                      IN  [kind |-> "found", fen |-> position.fen,
                           moves |-> SortDesc(transformed)]

(***************************************************************************)
(* server/src/router.ts                                                    *)
(***************************************************************************)

HexPairs == { <<"2", "0">>, <<"2", "F">>, <<"0", "9">> }

HexChar(pair) ==
    CASE pair = <<"2", "0">> -> " "
      [] pair = <<"2", "F">> -> "/"
      [] pair = <<"0", "9">> -> "\t"

\* decodeURIComponent(s): %XX becomes the character it encodes, a "%" that
\* no two hexadecimal digits follow throws a URIError
RECURSIVE DecodeFrom(_, _)
DecodeFrom(s, acc) ==
    IF s = <<>> THEN Key(acc)
    ELSE IF Head(s) # "%" THEN DecodeFrom(Tail(s), Append(acc, Head(s)))
    ELSE IF Len(s) >= 3 /\ SubSeq(s, 2, 3) \in HexPairs
         THEN DecodeFrom(SubSeq(s, 4, Len(s)), Append(acc, HexChar(SubSeq(s, 2, 3))))
         ELSE Thrown("URIError")

decodeURIComponent(s) == DecodeFrom(s, <<>>)

\* Object.keys(services)
TreeNames == [i \in 1..Len(stores) |-> stores[i].name]

IsConfigured(treeName) == \E i \in 1..Len(stores) : stores[i].name = treeName

\* services[treeName]
ServiceOf(treeName) ==
    stores[CHOOSE i \in 1..Len(stores) : stores[i].name = treeName].store

NotFound == 404
InternalServerError == 500
Ok == 200

\* the handler of GET /:treeName/* ; an error thrown in the handler reaches
\* the framework, which answers 500
TreeReply(treeName, encodedFen) ==
    IF ~IsConfigured(treeName)
    THEN [status |-> NotFound, detail |-> <<"Tree not found", treeName>>]
    ELSE LET decoded == decodeURIComponent(encodedFen)
         IN  IF decoded.kind = "thrown"
             THEN [status |-> InternalServerError, error |-> decoded.error]
             ELSE LET result == queryPosition(ServiceOf(treeName), decoded.value)
                  IN  IF result = Null
                      THEN [status |-> NotFound,
                            detail |-> <<"Position not found", decoded.value>>]
                      ELSE IF result.kind = "thrown"
                      THEN [status |-> InternalServerError, error |-> result.error]
                      ELSE [status |-> Ok,
                            body |-> [fen |-> result.fen, moves |-> result.moves]]

\* the handler of GET / : `${prefix}/${name}/` for every key of services
RootReply(protocol, host) ==
    LET inferredBase == protocol \o <<":", "/", "/">> \o host
        prefix == IF baseUrl = Undefined THEN inferredBase ELSE baseUrl
    IN  [status |-> Ok,
         body |-> [i \in 1..Len(TreeNames) |->
                     [name |-> TreeNames[i],
                      path |-> prefix \o <<"/">> \o TreeNames[i] \o <<"/">>]]]

(***************************************************************************)
(* Descriptors the normaliser is applied to                                *)
(***************************************************************************)

Str1(a) == <<a>>
Str2(a, b) == <<a, b>>

\* rank strings for the two ranks a capturing pawn can stand on
EmptyRank == <<"8">>
PawnRanks ==
    { EmptyRank,
      <<"1", "P", "6">>,            \* white pawn on b
      <<"7", "P">>,                 \* white pawn on h
      <<"3", "p", "P", "3">>,       \* black pawn on d, white pawn on e
      <<"p", "5", "p", "1">>,       \* black pawns on a and g
      <<"1", "1", "p", "4", "P">> } \* c and h, empty squares written 1+1

\* eight ranks, from rank 8 down to rank 1
Placement(rank5, rank4) ==
    Join(<<EmptyRank, EmptyRank, EmptyRank, rank5, rank4,
           EmptyRank, EmptyRank, EmptyRank>>, <<"/">>)

WellFormedPlacements == { Placement(r5, r4) : r5, r4 \in PawnRanks }

\* placements with too few ranks, with an empty rank, with an over-long rank
MalformedPlacements ==
    { Join(<<EmptyRank, EmptyRank>>, <<"/">>),
      Join(<<EmptyRank, EmptyRank, EmptyRank, <<"1", "P", "6">>>>, <<"/">>),
      Join(<<EmptyRank, EmptyRank, EmptyRank, <<>>, <<"9", "p">>,
             EmptyRank, EmptyRank, EmptyRank>>, <<"/">>) }

Placements == WellFormedPlacements \cup MalformedPlacements

ActiveColors == { <<"w">>, <<"b">> }

CastlingRights == { <<"K", "Q", "k", "q">>, Dash }

EpTargets ==
    { Dash, Str2("a", "6"), Str2("d", "6"), Str2("h", "6"), Str2("b", "3"),
      Str2("h", "3"), Str2("a", "4"), Str2("i", "6"), <<"d", "6", "6">> }

\* move counters and clocks that may follow the fourth field
Counters == { <<>>, <<Str1("0"), Str1("1")>>, <<Str1("3"), Str1("7")>> }

\* white space before, between and after the fields
Layouts ==
    { [lead |-> <<>>, sep |-> <<" ">>, trail |-> <<>>],
      [lead |-> <<" ">>, sep |-> <<" ", "\t">>, trail |-> <<"\t", " ">>] }

Render(fields, layout) == layout.lead \o Join(fields, layout.sep) \o layout.trail

FullDescriptors ==
    { Render(<<pp, ac, cr, ep>> \o cnt, lay) :
        pp \in Placements, ac \in ActiveColors, cr \in CastlingRights,
        ep \in EpTargets, cnt \in Counters, lay \in Layouts }

\* descriptors with fewer than four fields
ShortDescriptors ==
    { Render(SubSeq(<<Placement(EmptyRank, EmptyRank), <<"w">>, Dash>>, 1, n), lay) :
        n \in 0..3, lay \in Layouts }

Descriptors == FullDescriptors \cup ShortDescriptors

(***************************************************************************)
(* State of the normaliser's caller                                        *)
(***************************************************************************)

NoStores == <<>>

FenInit ==
    /\ fen \in Descriptors
    /\ key = None
    /\ prev = None
    /\ op = "init"
    /\ stores = NoStores
    /\ baseUrl = Undefined
    /\ request = None
    /\ reply = None

\* normaliseFen(fen)
Normalise ==
    /\ op = "init"
    /\ key' = normaliseFen(fen)
    /\ op' = "normalise"
    /\ UNCHANGED <<fen, prev, stores, baseUrl, request, reply>>

\* normaliseFen(normaliseFen(fen))
Renormalise ==
    /\ op = "normalise"
    /\ key.kind = "key"
    /\ prev' = key
    /\ fen' = key.value
    /\ key' = normaliseFen(key.value)
    /\ op' = "renormalise"
    /\ UNCHANGED <<stores, baseUrl, request, reply>>

\* normaliseFen of a descriptor with the same first four fields and other counters
Recount ==
    /\ op = "normalise"
    /\ Len(FenParts(fen)) >= MinParts
    /\ \E cnt \in Counters :
         /\ SubSeq(FenParts(fen), MinParts + 1, Len(FenParts(fen))) # cnt
         /\ fen' = Join(SubSeq(FenParts(fen), 1, MinParts) \o cnt, <<" ">>)
    /\ prev' = key
    /\ key' = normaliseFen(fen')
    /\ op' = "recount"
    /\ UNCHANGED <<stores, baseUrl, request, reply>>

FenNext == Normalise \/ Renormalise \/ Recount

FenSpec == FenInit /\ [][FenNext]_vars

(***************************************************************************)
(* Tree files and requests the server is run with                          *)
(***************************************************************************)

\* white to move, the pawn on e5 may capture a pawn that passed d6
FrenchBoard ==
    Join(<<EmptyRank, EmptyRank, <<"4", "p", "3">>, <<"3", "p", "P", "3">>,
           EmptyRank, EmptyRank, EmptyRank, EmptyRank>>, <<"/">>)

\* the same after Nf3
FrenchBoardNf3 ==
    Join(<<EmptyRank, EmptyRank, <<"4", "p", "3">>, <<"3", "p", "P", "3">>,
           EmptyRank, <<"5", "N", "2">>, EmptyRank, EmptyRank>>, <<"/">>)

\* the same after exd6
FrenchBoardExd6 ==
    Join(<<EmptyRank, EmptyRank, <<"3", "P", "p", "3">>, EmptyRank,
           EmptyRank, EmptyRank, EmptyRank, EmptyRank>>, <<"/">>)

FenOf(board, color, ep) == Join(<<board, color, Dash, ep>>, <<" ">>)

KeyEp == FenOf(FrenchBoard, <<"w">>, <<"d", "6">>)
KeyNoEp == FenOf(FrenchBoard, <<"w">>, Dash)
KeyNf3 == FenOf(FrenchBoardNf3, <<"b">>, Dash)
KeyExd6 == FenOf(FrenchBoardExd6, <<"b">>, Dash)

\* the keys a tree file may hold, and the id each gets
AllKeys == <<KeyEp, KeyNoEp, KeyNf3, KeyExd6>>

PositionRows(held) ==
    SelectSeq([i \in 1..Len(AllKeys) |-> [id |-> i, fen |-> AllKeys[i]]],
              LAMBDA p : p.fen \in held)

Notations == { <<"N", "f", "3">>, <<"e", "x", "d", "6">> }

\* position_statistics rows: total_games = white_wins + draws + black_wins >= 1,
\* the rating sums are integers
StatsRow(id, games, wins, draws, elo, perf, date) ==
    [position_id |-> id, total_games |-> games, white_wins |-> wins,
     draws |-> draws, black_wins |-> games - wins - draws,
     total_player_elo |-> elo, total_player_performance |-> perf,
     last_played_date |-> date, game_ref |-> <<"game", id>>]

StatsRows ==
    { StatsRow(1, 9, 4, 3, 21609, 21997, "2025-01-03"),
      StatsRow(2, 4, 1, 2, 9203, 9998, "2024-11-20"),
      StatsRow(3, 5, 2, 2, 12003, 12499, "2025-01-03"),
      StatsRow(4, 3, 2, 0, 7100, 7000, "2023-06-11") }

MaxMoves == 3

\* the edges between the held positions: from a position of the twin pair to
\* a position reached by a move; a row is whatever the file holds, so the
\* edges of a position and of its twin need not lead to the same positions
EdgesOf(positions) ==
    { [from |-> p.id, to |-> q.id, move |-> mv] :
        p \in { x \in Range(positions) : x.fen \in {KeyEp, KeyNoEp} },
        q \in { x \in Range(positions) : x.fen \in {KeyNf3, KeyExd6} },
        mv \in Notations }

\* the order the rows of a moves table are listed in
EdgeRank(e) == (e.from * 4 + e.to) * 2 + (IF e.move = <<"N", "f", "3">> THEN 0 ELSE 1)

\* the moves tables of at most n rows: duplicates allowed, rows listed by
\* EdgeRank
RECURSIVE MoveTables(_, _)
MoveTables(edges, n) ==
    IF n = 0 THEN { <<>> }
    ELSE LET shorter == MoveTables(edges, n - 1)
         IN  shorter \cup
             { Append(t, e) :
                 t \in { x \in shorter : Len(x) = n - 1 },
                 e \in edges }

Listed(table) ==
    \A i \in 1..(Len(table) - 1) : EdgeRank(table[i]) <= EdgeRank(table[i + 1])

\* within one position a notation names one destination: the position the
\* move leads to
OneDestination(table) ==
    \A i, j \in 1..Len(table) :
        (table[i].from = table[j].from /\ table[i].move = table[j].move)
            => table[i].to = table[j].to

\* a tree file: positions with distinct keys, one statistics row for each,
\* and moves between them
TreeFilesHolding(held) ==
    LET positions == PositionRows(held)
    IN  { [positions |-> positions, moves |-> table,
           stats |-> { r \in StatsRows : \E p \in Range(positions) : p.id = r.position_id }] :
            table \in { t \in MoveTables(EdgesOf(positions), MaxMoves) :
                          Listed(t) /\ OneDestination(t) } }

TreeFiles == UNION { TreeFilesHolding(held) : held \in SUBSET Range(AllKeys) }

TwicName == <<"t", "w", "i", "c">>
MastersName == <<"m", "a", "s", "t", "e", "r", "s">>
UnknownName == <<"n", "o", "p", "e">>

\* a second tree, holding one position and no move
MastersFile ==
    [positions |-> <<[id |-> 1, fen |-> KeyNoEp]>>, moves |-> <<>>,
     stats |-> { StatsRow(1, 1, 1, 0, 2400, 2600, "2022-05-01") }]

BaseUrls ==
    { Undefined,
      <<"h", "t", "t", "p", "s", ":", "/", "/", "c", "h", "e", "s", "s", ".", "x">> }

RECURSIVE EncodeURIComponent(_)
EncodeURIComponent(s) ==
    IF s = <<>> THEN <<>>
    ELSE (CASE Head(s) = " " -> <<"%", "2", "0">>
            [] Head(s) = "/" -> <<"%", "2", "F">>
            [] Head(s) = "\t" -> <<"%", "0", "9">>
            [] OTHER -> <<Head(s)>>)
         \o EncodeURIComponent(Tail(s))

\* the wildcard parameter of requests for the first tree
TwicParams ==
    { KeyEp \o <<" ", "0", " ", "3">>,                    \* with counters
      KeyEp,
      KeyNoEp,
      FenOf(FrenchBoard, <<"w">>, <<"a", "6">>),          \* a target no pawn can take
      KeyNf3,
      EncodeURIComponent(KeyEp),
      <<"a", "b", "c">>,                                  \* one field
      <<"8", "/", "8", " ", "b", " ", "-", " ", "a", "6">> } \* two ranks

Requests ==
    { [treeName |-> TwicName, param |-> q] : q \in TwicParams }
    \cup { [treeName |-> MastersName, param |-> q] : q \in {KeyNoEp} }
    \cup { [treeName |-> UnknownName, param |-> KeyNoEp] }

Hosts == { <<"l", "o", "c", "a", "l", "h", "o", "s", "t">> }
Protocols == { <<"h", "t", "t", "p">> }

Init ==
    /\ fen = <<>>
    /\ key = None
    /\ prev = None
    /\ op = "init"
    /\ \E file \in TreeFiles :
         stores = << [name |-> TwicName, store |-> file],
          [name |-> MastersName, store |-> MastersFile] >>
    /\ baseUrl \in BaseUrls
    /\ request = None
    /\ reply = None

\* a variant that records a key it did not find in the tree file
GetTreeRecording ==
    \E r \in Requests :
        /\ request' = [route |-> "tree", treeName |-> r.treeName, param |-> r.param]
        /\ reply' = TreeReply(r.treeName, r.param)
        /\ prev' = None
        /\ stores' =
              [i \in 1..Len(stores) |->
                 IF stores[i].name = r.treeName /\ reply'.status = NotFound
                 THEN [name |-> stores[i].name,
                       store |-> [stores[i].store EXCEPT
                                    !.positions = Append(@, [id |-> Len(@) + 5,
                                                             fen |-> r.param])]]
                 ELSE stores[i]]
        /\ UNCHANGED <<fen, key, op, baseUrl>>

\* GET /{treeName}/{param}
GetTree ==
    \E r \in Requests :
        /\ request' = [route |-> "tree", treeName |-> r.treeName, param |-> r.param]
        /\ reply' = TreeReply(r.treeName, r.param)
        /\ prev' = None
        /\ UNCHANGED <<fen, key, op, stores, baseUrl>>

\* GET /{treeName}/{key}, with the key normaliseFen gives for the descriptor
\* of the request just served; prev keeps that request and its reply
Requery ==
    /\ request # None
    /\ request.route = "tree"
    /\ prev = None
    /\ LET decoded == decodeURIComponent(request.param)
       IN  /\ decoded.kind = "key"
           /\ normaliseFen(decoded.value).kind = "key"
           /\ request' = [request EXCEPT !.param = normaliseFen(decoded.value).value]
    /\ reply' = TreeReply(request'.treeName, request'.param)
    /\ prev' = [request |-> request, reply |-> reply]
    /\ UNCHANGED <<fen, key, op, stores, baseUrl>>

\* GET /
GetRoot ==
    \E protocol \in Protocols, host \in Hosts :
        /\ request' = [route |-> "root", protocol |-> protocol, host |-> host]
        /\ reply' = RootReply(protocol, host)
        /\ prev' = None
        /\ UNCHANGED <<fen, key, op, stores, baseUrl>>

Next == GetTree \/ Requery \/ GetRoot

Spec == Init /\ [][Next]_vars

(***************************************************************************)
(* Reading a descriptor, for the statements below: the fields are the      *)
(* maximal runs of characters that are not white space, and a rank string  *)
(* is read square by square.                                               *)
(***************************************************************************)

FieldStarts(s) ==
    { i \in 1..Len(s) : s[i] \notin WhiteSpace /\ (i = 1 \/ s[i - 1] \in WhiteSpace) }

FieldCount(s) == Cardinality(FieldStarts(s))

FieldEnd(s, i) ==
    CHOOSE j \in i..Len(s) :
        /\ \A k \in i..j : s[k] \notin WhiteSpace
        /\ j = Len(s) \/ s[j + 1] \in WhiteSpace

\* the n-th field of s, for 1 <= n <= FieldCount(s)
Field(s, n) ==
    LET i == CHOOSE x \in FieldStarts(s) :
                 Cardinality({ y \in FieldStarts(s) : y <= x }) = n
    IN  SubSeq(s, i, FieldEnd(s, i))

\* the number of squares the first n characters of a rank string cover
RECURSIVE SquaresBefore(_, _)
SquaresBefore(rankStr, n) ==
    IF n = 0 THEN 0
    ELSE SquaresBefore(rankStr, n - 1)
         + (IF IsDigit(rankStr[n]) THEN DigitValue[rankStr[n]] ELSE 1)

\* whether piece stands on the file (0 = a .. 7 = h) of the rank
StandsOn(rankStr, file, piece) ==
    \E n \in 1..Len(rankStr) :
        /\ rankStr[n] = piece
        /\ SquaresBefore(rankStr, n - 1) = file

\* the rank string of a rank (1..8) of a placement, ranks listed from 8 down
RankOf(placement, rank) ==
    LET slashes == { i \in 1..Len(placement) : placement[i] = "/" }
        before == CHOOSE i \in slashes :
                      Cardinality({ j \in slashes : j <= i }) = BoardWidth - rank
        start == IF rank = BoardWidth THEN 1 ELSE before + 1
        later == { i \in slashes : i >= start }
        stop == IF later = {} THEN Len(placement)
                ELSE (CHOOSE i \in later : \A j \in later : i <= j) - 1
    IN  SubSeq(placement, start, stop)

HasEightRanks(placement) ==
    Cardinality({ i \in 1..Len(placement) : placement[i] = "/" }) = BoardWidth - 1

\* a pawn of the side to move stands next to the target's file on the rank
\* it captures from
Capturable(placement, activeColor, ep) ==
    LET rankStr == RankOf(placement, IF activeColor = <<"w">> THEN 5 ELSE 4)
        pawn == IF activeColor = <<"w">> THEN "P" ELSE "p"
        file == FileIndex[ep[1]]
    IN  \E n \in {file - 1, file + 1} :
            n \in 0..(BoardWidth - 1) /\ StandsOn(rankStr, n, pawn)

(***************************************************************************)
(* Properties of the normaliser, of specification FenSpec                  *)
(***************************************************************************)

\* C3: normalising a key that normaliseFen returned gives that key again.
NormaliseIdempotent ==
    op = "renormalise" => key = prev

NormaliseIdempotentWitness ==
    /\ op = "renormalise"
    /\ key.kind = "key"
    /\ key = prev
    /\ Field(key.value, 4) = <<"d", "6">>

\* C4: a target on file a-h and rank 3 or 6 is kept exactly when a pawn of
\* the side to move stands on a neighbouring file of rank 5 (white to move)
\* or rank 4 (black to move); otherwise the field becomes "-".
EnPassantResolved ==
    ( /\ op = "normalise"
      /\ FieldCount(fen) >= 4
      /\ HasEightRanks(Field(fen, 1))
      /\ Field(fen, 2) \in { <<"w">>, <<"b">> }
      /\ IsEpSquare(Field(fen, 4)) )
    => /\ key.kind = "key"
       /\ Field(key.value, 4) =
            IF Capturable(Field(fen, 1), Field(fen, 2), Field(fen, 4))
            THEN Field(fen, 4)
            ELSE Dash

\* white to move, target a6, the only white pawn of rank 5 on the h-file:
\* the target is dropped, the h-file is no neighbour of the a-file
EnPassantResolvedWitness ==
    /\ op = "normalise"
    /\ FieldCount(fen) >= 4
    /\ Field(fen, 1) = Placement(<<"7", "P">>, EmptyRank)
    /\ Field(fen, 2) = <<"w">>
    /\ Field(fen, 4) = <<"a", "6">>
    /\ key.kind = "key"
    /\ Field(key.value, 4) = Dash

\* C5: the key is the first three fields unchanged and a fourth field,
\* separated by single spaces, and descriptors that differ only after the
\* fourth field get the same key.
CountersDropped ==
    /\ (op = "normalise" /\ key.kind = "key") =>
          /\ FieldCount(fen) >= 4
          /\ \E ep \in {Dash, Field(fen, 4)} :
                key.value = Field(fen, 1) \o <<" ">> \o Field(fen, 2) \o <<" ">>
                            \o Field(fen, 3) \o <<" ">> \o ep
    /\ op = "recount" => key = prev

CountersDroppedWitness ==
    /\ op = "recount"
    /\ FieldCount(fen) = 6
    /\ key.kind = "key"
    /\ key = prev
    /\ key.value # fen

\* C6: normaliseFen returns a key for every descriptor of four or more fields.
TotalOnFourFields ==
    (op = "normalise" /\ FieldCount(fen) >= 4) => key.kind = "key"

\* C7: normaliseFen throws its error for every descriptor of fewer than four
\* fields, the empty and the all-white-space descriptor included.
FewerThanFourFieldsFails ==
    (op = "normalise" /\ FieldCount(fen) < 4) => key = Thrown("Error")

FewerThanFourFieldsFailsWitness ==
    /\ op = "normalise"
    /\ fen # <<>>
    /\ FieldCount(fen) = 0
    /\ key = Thrown("Error")

\* C8: an en-passant field that is neither "-" nor a square of file a-h and
\* rank 3 or 6 is the fourth field of the key, unchanged.
InvalidSquareKept ==
    ( /\ op = "normalise"
      /\ FieldCount(fen) >= 4
      /\ Field(fen, 4) # Dash
      /\ ~IsEpSquare(Field(fen, 4)) )
    => /\ key.kind = "key"
       /\ Field(key.value, 4) = Field(fen, 4)
       /\ FieldCount(key.value) = 4

InvalidSquareKeptWitness ==
    /\ op = "normalise"
    /\ FieldCount(fen) >= 4
    /\ Field(fen, 4) = <<"a", "4">>
    /\ Field(fen, 1) \in MalformedPlacements
    /\ key.kind = "key"
    /\ Field(key.value, 4) = <<"a", "4">>

(***************************************************************************)
(* Reading a tree file and a reply, for the statements below               *)
(***************************************************************************)

TreeRequest == request # None /\ request.route = "tree"

Found == TreeRequest /\ reply.status = Ok

\* the tree file the request names (for a configured name)
RequestedFile == ServiceOf(request.treeName)

Holds(file, k) == \E p \in Range(file.positions) : p.fen = k

IdOf(file, k) == (CHOOSE p \in Range(file.positions) : p.fen = k).id

KeyOfId(file, id) == (CHOOSE p \in Range(file.positions) : p.id = id).fen

StatsOfId(file, id) == CHOOSE r \in file.stats : r.position_id = id

\* the rows of the moves table that leave the position of key k
EdgesFrom(file, k) ==
    IF Holds(file, k)
    THEN { i \in 1..Len(file.moves) : file.moves[i].from = IdOf(file, k) }
    ELSE {}

NotationsFrom(file, k) == { file.moves[i].move : i \in EdgesFrom(file, k) }

\* the key with its en-passant field forced to "-"
StrippedKey(k) ==
    Field(k, 1) \o <<" ">> \o Field(k, 2) \o <<" ">> \o Field(k, 3) \o <<" ", "-">>

CarriesTarget(k) == Field(k, 4) # Dash

\* the key carries a target a pawn can capture on, and the file holds both
\* the key and its stripped twin
HoldsTwins(file, k) ==
    /\ CarriesTarget(k)
    /\ IsEpSquare(Field(k, 4))
    /\ Capturable(Field(k, 1), Field(k, 2), Field(k, 4))
    /\ Holds(file, k)
    /\ Holds(file, StrippedKey(k))

Entries == reply.body.moves

EntryNotations == { Entries[i].move : i \in 1..Len(Entries) }

NoNotationTwice ==
    \A i, j \in 1..Len(Entries) : Entries[i].move = Entries[j].move => i = j

\* the entry shows the edge: its notation, the key and the statistics of the
\* position it leads to
Shows(file, entry, edge) ==
    LET st == StatsOfId(file, edge.to)
    IN  /\ entry.move = edge.move
        /\ entry.fen = KeyOfId(file, edge.to)
        /\ entry.total_games = st.total_games
        /\ entry.white_wins = st.white_wins
        /\ entry.draws = st.draws
        /\ entry.black_wins = st.black_wins
        /\ entry.last_played_date = st.last_played_date
        /\ entry.game_ref = st.game_ref

\* the twin's rows were merged into the reply
Merged ==
    /\ CarriesTarget(reply.body.fen)
    /\ Holds(RequestedFile, StrippedKey(reply.body.fen))

(***************************************************************************)
(* Properties of the query service and the routes, of specification Spec   *)
(***************************************************************************)

\* C1, as claimed: with a position held under a key with a capturable target
\* and under the same key with "-", a query by either key returns the union
\* of the notations of both, none twice.
QueryMergeEitherKey ==
    \A k \in Range(AllKeys) :
        ( /\ TreeRequest
          /\ IsConfigured(request.treeName)
          /\ HoldsTwins(RequestedFile, k)
          /\ request.param \in {k, StrippedKey(k)} )
        => /\ reply.status = Ok
           /\ EntryNotations = NotationsFrom(RequestedFile, k)
                               \cup NotationsFrom(RequestedFile, StrippedKey(k))
           /\ NoNotationTwice

\* C1, amended: a query by the key with the target returns the union of the
\* notations of both positions, none twice; a query by the key with "-"
\* returns the notations of that position alone.
QueryMergeByTargetKey ==
    \A k \in Range(AllKeys) :
        ( /\ TreeRequest
          /\ IsConfigured(request.treeName)
          /\ HoldsTwins(RequestedFile, k) )
        => /\ request.param = k =>
                /\ reply.status = Ok
                /\ reply.body.fen = k
                /\ EntryNotations = NotationsFrom(RequestedFile, k)
                                    \cup NotationsFrom(RequestedFile, StrippedKey(k))
                /\ NoNotationTwice
           /\ request.param = StrippedKey(k) =>
                /\ reply.status = Ok
                /\ reply.body.fen = StrippedKey(k)
                /\ EntryNotations = NotationsFrom(RequestedFile, StrippedKey(k))

\* both positions have Nf3, the position with the target also has exd6
QueryMergeByTargetKeyWitness ==
    /\ Found
    /\ request.param = KeyEp
    /\ HoldsTwins(RequestedFile, KeyEp)
    /\ NotationsFrom(RequestedFile, KeyEp) = Notations
    /\ NotationsFrom(RequestedFile, KeyNoEp) = { <<"N", "f", "3">> }
    /\ Len(Entries) = 2

\* C2, as claimed: whatever the tree file and the key, no notation is in the
\* reply twice, and for a notation both the queried position and its twin
\* have, the entry is the queried position's.
OneEntryPerNotation ==
    Found =>
        /\ NoNotationTwice
        /\ \A i \in 1..Len(Entries) :
              \A e \in EdgesFrom(RequestedFile, reply.body.fen) :
                  RequestedFile.moves[e].move = Entries[i].move
                      => Shows(RequestedFile, Entries[i], RequestedFile.moves[e])

\* C2, amended: when the twin is merged in, no notation is in the reply twice
\* and for a notation both positions have, the entry is the queried
\* position's; when nothing is merged the reply has one entry per row of the
\* moves table leaving the position, duplicate rows included.
OneEntryPerNotationWhenMerged ==
    Found =>
        /\ Merged => NoNotationTwice
        /\ \A i \in 1..Len(Entries) :
              \A e \in EdgesFrom(RequestedFile, reply.body.fen) :
                  RequestedFile.moves[e].move = Entries[i].move
                      => Shows(RequestedFile, Entries[i], RequestedFile.moves[e])
        /\ ~Merged =>
              Len(Entries) = Cardinality(EdgesFrom(RequestedFile, reply.body.fen))

\* a duplicate row and a notation the twin has too, leading elsewhere
OneEntryPerNotationWhenMergedWitness ==
    /\ Found
    /\ Merged
    /\ Len(Entries) = 1
    /\ Cardinality(EdgesFrom(RequestedFile, reply.body.fen)) = 2
    /\ \E e \in EdgesFrom(RequestedFile, StrippedKey(reply.body.fen)) :
          /\ RequestedFile.moves[e].move = Entries[1].move
          /\ KeyOfId(RequestedFile, RequestedFile.moves[e].to) # Entries[1].fen

\* C9: a request for a tree is answered 200, or 404 with a detail; 404 when
\* the tree is not configured; never by an error or another status.
UnknownIsNotFound ==
    TreeRequest =>
        /\ reply.status = Ok \/ (reply.status = NotFound /\ "detail" \in DOMAIN reply)
        /\ ~IsConfigured(request.treeName) => reply.status = NotFound

EntriesSortedByGames ==
    Found =>
        \A i, j \in 1..Len(Entries) :
            i < j => Entries[i].total_games >= Entries[j].total_games

\* merged, and the entry of most games is one only the twin has: the merge
\* had put it last
EntriesSortedByGamesWitness ==
    /\ Found
    /\ Merged
    /\ Len(Entries) = 2
    /\ Entries[1].total_games > Entries[2].total_games
    /\ Entries[1].move \notin NotationsFrom(RequestedFile, reply.body.fen)
    /\ Entries[2].move \in NotationsFrom(RequestedFile, reply.body.fen)

\* the request repeats, with the normalised key, the request kept in prev
Requeried == TreeRequest /\ prev # None

\* C12: a query by a descriptor and a query by the key normaliseFen gives
\* for it have the same outcome: both find nothing, or both return the same
\* key and the same list of moves.
RequeryAgrees ==
    Requeried =>
        /\ reply.status = prev.reply.status
        /\ reply.status = Ok => reply.body = prev.reply.body

\* the descriptor carried counters, and the position has moves
RequeryAgreesWitness ==
    /\ Requeried
    /\ prev.request.param = KeyEp \o <<" ", "0", " ", "3">>
    /\ request.param = KeyEp
    /\ reply.status = Ok
    /\ Len(Entries) = 2
    /\ reply.body = prev.reply.body

\* C13: in every entry, rating and performance are the sums of the
\* destination's statistics row divided by its total_games, truncated.
RatingsTruncated ==
    Found =>
        \A i \in 1..Len(Entries) :
            \E e \in EdgesFrom(RequestedFile, reply.body.fen)
                     \cup EdgesFrom(RequestedFile, StrippedKey(reply.body.fen)) :
                LET st == StatsOfId(RequestedFile, RequestedFile.moves[e].to)
                    n == st.total_games
                IN  /\ Shows(RequestedFile, Entries[i], RequestedFile.moves[e])
                    /\ n >= 1
                    /\ Entries[i].rating * n <= st.total_player_elo
                    /\ st.total_player_elo < (Entries[i].rating + 1) * n
                    /\ Entries[i].performance * n <= st.total_player_performance
                    /\ st.total_player_performance < (Entries[i].performance + 1) * n

\* a rating whose quotient has a fraction above one half
RatingsTruncatedWitness ==
    /\ Found
    /\ \E i \in 1..Len(Entries) :
          /\ Entries[i].total_games = 5
          /\ Entries[i].rating = 2400
          /\ Entries[i].performance = 2499

\* C14: GET / returns one entry per configured tree, with the tree's name
\* and the relative path "/{name}/".
RootListsRelativePaths ==
    (request # None /\ request.route = "root") =>
        /\ reply.status = Ok
        /\ Len(reply.body) = Len(stores)
        /\ \A i \in 1..Len(stores) :
              /\ reply.body[i].name = stores[i].name
              /\ reply.body[i].path = <<"/">> \o stores[i].name \o <<"/">>

\* C15: no request changes the content of a tree file.
StoresNeverChange == [][stores' = stores]_vars

\* a second request has been served, after one that merged two positions
StoresNeverChangeWitness ==
    /\ Requeried
    /\ prev.reply.status = Ok
    /\ Merged
    /\ Len(Entries) = 2
    /\ stores[1].store.moves # <<>>

====
